---- MODULE Spec2Model ----
(***************************************************************************)
(* AudioFlow Engine v1 (src/server.js): the POST /make handler with its    *)
(* in-memory rate limiter, the plan provider call, the procedural WAV      *)
(* synthesis and the WAV writer.                                           *)
(*                                                                         *)
(* JavaScript values are tagged records, strings are sequences of          *)
(* one-character strings, so that String(), parseInt(), Number(),          *)
(* toUpperCase() and slice() are computed the way the engine computes      *)
(* them.  A 32-bit word of the xorshift generator is the pair of its two    *)
(* 16-bit halves.                                                          *)
(***************************************************************************)
EXTENDS Integers, Sequences, FiniteSets

VARIABLES
  RATE_LIMIT_PER_MIN,  \* server.js:19, read once from the environment
  COOLDOWN_MS,         \* server.js:20, read once from the environment
  OPENAI_API_KEY,      \* server.js:15, TRUE iff a key is configured
  now,                 \* Date.now(), milliseconds
  ipBuckets,           \* server.js:74, Map ip -> {tsMinute, count, lastTs}
  inflight,            \* handler frames suspended at an await, by request id
  files,               \* OUT_DIR: file name -> file content
  last,                \* the exchange completed by the latest step
  ncalls,              \* number of POST /make requests received so far
  hist,                \* per-ip record of the limiter's verdicts (history)
  syn,                 \* the frame of one synthAmbientWav invocation
  wav                  \* input and output of one writeWavMono16 invocation

vars == <<RATE_LIMIT_PER_MIN, COOLDOWN_MS, OPENAI_API_KEY, now, ipBuckets,
          inflight, files, last, ncalls, hist, syn, wav>>

Max(a, b) == IF a >= b THEN a ELSE b
Min(a, b) == IF a <= b THEN a ELSE b
Abs(a) == IF a < 0 THEN -a ELSE a

\* Math.floor of the rational num/den, den > 0.
Floor(num, den) == num \div den

(***************************************************************************)
(* JavaScript values                                                       *)
(***************************************************************************)
Undefined == [t |-> "undefined"]
NaN == [t |-> "nan"]
Infinity == [t |-> "infinity"]
\* a number with one decimal digit: n10 = 25 is 2.5
Num10(n10) == [t |-> "number", n10 |-> n10]
Num(n) == Num10(10 * n)
Str(chars) == [t |-> "string", chars |-> chars]
\* an object parsed from JSON whose own "toString" property is not callable,
\* e.g. {"toString": 1}: ToPrimitive throws a TypeError on it
OpaqueObject == [t |-> "object"]
\* an array of strings
Arr(items) == [t |-> "array", items |-> items]

IsNumber(v) == v.t \in {"number", "nan", "infinity"}

\* ToBoolean
Truthy(v) ==
  CASE v.t = "undefined" -> FALSE
    [] v.t = "nan" -> FALSE
    [] v.t = "number" -> v.n10 # 0
    [] v.t = "string" -> Len(v.chars) > 0
    [] OTHER -> TRUE

\* a || b
OrElse(a, b) == IF Truthy(a) THEN a ELSE b

DigitChars == <<"0", "1", "2", "3", "4", "5", "6", "7", "8", "9">>
DigitChar(d) == DigitChars[d + 1]
IsDigit(c) == \E d \in 0..9 : DigitChar(d) = c
DigitValue(c) == CHOOSE d \in 0..9 : DigitChar(d) = c

RECURSIVE NatChars(_)
NatChars(n) == IF n < 10 THEN <<DigitChar(n)>>
               ELSE Append(NatChars(n \div 10), DigitChar(n % 10))

\* Number::toString for a number with one decimal digit
NumberChars(n10) ==
  LET a == Abs(n10)
      sign == IF n10 < 0 THEN <<"-">> ELSE <<>>
      frac == IF a % 10 = 0 THEN <<>> ELSE <<".", DigitChar(a % 10)>>
  IN sign \o NatChars(a \div 10) \o frac

\* ToString: [threw |-> TRUE] for a TypeError, else the characters.
ToString(v) ==
  CASE v.t = "string" -> [threw |-> FALSE, chars |-> v.chars]
    [] v.t = "number" -> [threw |-> FALSE, chars |-> NumberChars(v.n10)]
    [] v.t = "nan" -> [threw |-> FALSE, chars |-> <<"N", "a", "N">>]
    [] v.t = "infinity" ->
         [threw |-> FALSE, chars |-> <<"I", "n", "f", "i", "n", "i", "t", "y">>]
    [] v.t = "undefined" ->
         [threw |-> FALSE,
          chars |-> <<"u", "n", "d", "e", "f", "i", "n", "e", "d">>]
    [] OTHER -> [threw |-> TRUE, chars |-> <<>>]

\* String.prototype.slice(0, n)
Slice(chars, n) == SubSeq(chars, 1, Min(Len(chars), n))

RECURSIVE DigitPrefixLen(_, _)
DigitPrefixLen(chars, from) ==
  IF from <= Len(chars) /\ IsDigit(chars[from])
  THEN 1 + DigitPrefixLen(chars, from + 1) ELSE 0

RECURSIVE DigitsValue(_, _, _)
DigitsValue(chars, from, n) ==
  IF n = 0 THEN 0
  ELSE 10 * DigitsValue(chars, from, n - 1) + DigitValue(chars[from + n - 1])

\* parseInt(chars, 10) of a string: optional sign, then the longest run of
\* decimal digits; NaN when there is none.
parseIntChars(chars) ==
  LET neg == Len(chars) > 0 /\ chars[1] = "-"
      from == IF Len(chars) > 0 /\ chars[1] \in {"-", "+"} THEN 2 ELSE 1
      n == DigitPrefixLen(chars, from)
  IN IF n = 0 THEN NaN
     ELSE Num((IF neg THEN -1 ELSE 1) * DigitsValue(chars, from, n))

\* parseInt(v, 10): ToString(v) first, which may throw.
parseInt(v) ==
  LET s == ToString(v)
  IN IF s.threw THEN [threw |-> TRUE, value |-> NaN]
     ELSE [threw |-> FALSE, value |-> parseIntChars(s.chars)]

LowerChars == <<"a", "b", "c", "d", "e", "f", "g", "h", "i", "j", "k", "l", "m",
                "n", "o", "p", "q", "r", "s", "t", "u", "v", "w", "x", "y", "z">>
UpperChars == <<"A", "B", "C", "D", "E", "F", "G", "H", "I", "J", "K", "L", "M",
                "N", "O", "P", "Q", "R", "S", "T", "U", "V", "W", "X", "Y", "Z">>
UpperChar(c) ==
  IF \E k \in 1..26 : LowerChars[k] = c
  THEN UpperChars[CHOOSE k \in 1..26 : LowerChars[k] = c] ELSE c
toUpperCase(chars) == [k \in 1..Len(chars) |-> UpperChar(chars[k])]

(***************************************************************************)
(* String literals of server.js                                            *)
(***************************************************************************)
CALM_LOOP ==
  <<"C", "A", "L", "M", "_", "L", "O", "O", "P">>
UPBEAT_SHORTS ==
  <<"U", "P", "B", "E", "A", "T", "_", "S", "H", "O", "R", "T", "S">>
DOCUMENTARY ==
  <<"D", "O", "C", "U", "M", "E", "N", "T", "A", "R", "Y">>
NINETY ==
  <<"9", "0">>
UNTITLED ==
  <<"U", "n", "t", "i", "t", "l", "e", "d">>
TITLE_PREFIX ==
  <<"A", "u", "d", "i", "o", "F", "l", "o", "w", " ", "B", "G", "M", ":",
    " ">>
MOOD_UPBEAT ==
  <<"e", "n", "e", "r", "g", "e", "t", "i", "c", ",", " ", "l", "i", "g",
    "h", "t", ",", " ", "p", "o", "s", "i", "t", "i", "v", "e">>
MOOD_CALM ==
  <<"c", "a", "l", "m", ",", " ", "s", "t", "e", "a", "d", "y", ",", " ",
    "u", "n", "o", "b", "t", "r", "u", "s", "i", "v", "e">>
NOTE_NO_KEY ==
  <<"O", "P", "E", "N", "A", "I", "_", "A", "P", "I", "_", "K", "E", "Y",
    " ", "m", "i", "s", "s", "i", "n", "g", ":", " ", "u", "s", "e", "d",
    " ", "f", "a", "l", "l", "b", "a", "c", "k", " ", "p", "l", "a", "n",
    " ", "(", "a", "u", "d", "i", "o", " ", "g", "e", "n", "e", "r", "a",
    "t", "i", "o", "n", " ", "s", "t", "i", "l", "l", " ", "w", "o", "r",
    "k", "s", ")", ".">>
NOTE_FAILED_PREFIX ==
  <<"O", "p", "e", "n", "A", "I", " ", "f", "a", "i", "l", "e", "d", " ",
    "-", ">", " ", "f", "a", "l", "l", "b", "a", "c", "k", " ", "p", "l",
    "a", "n", ".", " ", "(">>
MSG_HTTP_PREFIX ==
  <<"o", "p", "e", "n", "a", "i", "_", "h", "t", "t", "p", "_">>
MSG_PARSE_FAIL ==
  <<"o", "p", "e", "n", "a", "i", "_", "p", "a", "r", "s", "e", "_", "f",
    "a", "i", "l">>
MSG_FETCH_FAILED ==
  <<"f", "e", "t", "c", "h", " ", "f", "a", "i", "l", "e", "d">>
MSG_JSON_SYNTAX ==
  <<"U", "n", "e", "x", "p", "e", "c", "t", "e", "d", " ", "e", "n", "d",
    " ", "o", "f", " ", "J", "S", "O", "N", " ", "i", "n", "p", "u", "t">>
DOWNLOAD_PREFIX ==
  <<"/", "d", "o", "w", "n", "l", "o", "a", "d", "/">>
FILE_PREFIX ==
  <<"a", "u", "d", "i", "o", "f", "l", "o", "w", "_">>
FILE_SUFFIX ==
  <<".", "w", "a", "v">>

(***************************************************************************)
(* Config                                                                  *)
(***************************************************************************)
MAX_MINUTES == 5
sampleRate == 44100
MinuteMs == 60000

(***************************************************************************)
(* Fixed schema helpers                                                    *)
(***************************************************************************)
emptyData ==
  [title |-> <<>>,
   preset |-> CALM_LOOP,
   duration_sec |-> 0,
   loopable |-> FALSE,
   prompt |-> [topic |-> <<>>, mood |-> <<>>, tempo_bpm |-> Num(0),
               instruments |-> <<>>, do_not |-> <<>>],
   audio |-> [format |-> "wav", sample_rate |-> 44100, bitrate_kbps |-> 1411,
              file_name |-> <<>>, download_url |-> <<>>],
   notes |-> <<>>]

okResponse(data) == [ok |-> TRUE, code |-> "OK", data |-> data]

\* Faulty variant: an error response whose data is patched with the code.
errResponsePatched(code) ==
  [ok |-> FALSE, code |-> code, data |-> [emptyData EXCEPT !.notes = <<code>>]]
\* server.js:69-71
errResponse(code) == [ok |-> FALSE, code |-> code, data |-> emptyData]

\* res.status(status).json(body)
Reply(status, body) == [status |-> status, body |-> body]

(***************************************************************************)
(* Rate limit (in-memory)                                                  *)
(***************************************************************************)
\* req.headers["x-forwarded-for"] is given already split at the commas.
getClientIp(req) ==
  IF Len(req.xff) > 0 THEN Head(req.xff)
  ELSE IF req.remoteAddress # "" THEN req.remoteAddress ELSE "unknown"

MapSet(map, key, value) ==
  [k \in DOMAIN map \cup {key} |-> IF k = key THEN value ELSE map[k]]

\* Faulty variant: the limit is compared one too high.
rateLimitCheckLoose(buckets, ip, t) ==
  LET minute == Floor(t, MinuteMs)
      had == ip \in DOMAIN buckets
      cur0 == IF had THEN buckets[ip]
              ELSE [tsMinute |-> minute, count |-> 0, lastTs |-> 0]
      cur1 == IF cur0.tsMinute # minute
              THEN [cur0 EXCEPT !.tsMinute = minute, !.count = 0] ELSE cur0
      cooling == COOLDOWN_MS > 0 /\ cur1.lastTs # 0
                 /\ t - cur1.lastTs < COOLDOWN_MS
      cur2 == [cur1 EXCEPT !.count = @ + 1, !.lastTs = t]
  IN IF cooling
     THEN [ok |-> FALSE, code |-> "E-RATE-001",
           buckets |-> IF had THEN MapSet(buckets, ip, cur1) ELSE buckets]
     ELSE IF cur2.count > RATE_LIMIT_PER_MIN + 1
          THEN [ok |-> FALSE, code |-> "E-RATE-001",
                buckets |-> MapSet(buckets, ip, cur2)]
          ELSE [ok |-> TRUE, code |-> "", buckets |-> MapSet(buckets, ip, cur2)]

\* Faulty variant: a request rejected by the cooldown refreshes lastTs.
rateLimitCheckRefresh(buckets, ip, t) ==
  LET minute == Floor(t, MinuteMs)
      had == ip \in DOMAIN buckets
      cur0 == IF had THEN buckets[ip]
              ELSE [tsMinute |-> minute, count |-> 0, lastTs |-> 0]
      cur1 == IF cur0.tsMinute # minute
              THEN [cur0 EXCEPT !.tsMinute = minute, !.count = 0] ELSE cur0
      cooling == COOLDOWN_MS > 0 /\ cur1.lastTs # 0
                 /\ t - cur1.lastTs < COOLDOWN_MS
      cur2 == [cur1 EXCEPT !.count = @ + 1, !.lastTs = t]
  IN IF cooling
     THEN [ok |-> FALSE, code |-> "E-RATE-001",
           buckets |-> MapSet(buckets, ip, [cur1 EXCEPT !.lastTs = t])]
     ELSE IF cur2.count > RATE_LIMIT_PER_MIN
          THEN [ok |-> FALSE, code |-> "E-RATE-001",
                buckets |-> MapSet(buckets, ip, cur2)]
          ELSE [ok |-> TRUE, code |-> "", buckets |-> MapSet(buckets, ip, cur2)]

\* rateLimitCheck at time t: the verdict and the Map it leaves.  The bucket
\* fetched from the Map is the stored object, so the per-minute reset reaches
\* the Map even when the cooldown branch returns early.
rateLimitCheck(buckets, ip, t) ==
  LET minute == Floor(t, MinuteMs)
      had == ip \in DOMAIN buckets
      cur0 == IF had THEN buckets[ip]
              ELSE [tsMinute |-> minute, count |-> 0, lastTs |-> 0]
      cur1 == IF cur0.tsMinute # minute
              THEN [cur0 EXCEPT !.tsMinute = minute, !.count = 0] ELSE cur0
      cooling == COOLDOWN_MS > 0 /\ cur1.lastTs # 0
                 /\ t - cur1.lastTs < COOLDOWN_MS
      cur2 == [cur1 EXCEPT !.count = @ + 1, !.lastTs = t]
  IN IF cooling
     THEN [ok |-> FALSE, code |-> "E-RATE-001",
           buckets |-> IF had THEN MapSet(buckets, ip, cur1) ELSE buckets]
     ELSE IF cur2.count > RATE_LIMIT_PER_MIN
          THEN [ok |-> FALSE, code |-> "E-RATE-001",
                buckets |-> MapSet(buckets, ip, cur2)]
          ELSE [ok |-> TRUE, code |-> "", buckets |-> MapSet(buckets, ip, cur2)]

(***************************************************************************)
(* POST /make: the request's locals (server.js:354-365)                    *)
(***************************************************************************)
presetOf(presetRaw) ==
  IF presetRaw = UPBEAT_SHORTS THEN UPBEAT_SHORTS
  ELSE IF presetRaw = DOCUMENTARY THEN DOCUMENTARY ELSE CALM_LOOP

\* cap = Math.max(10, Math.floor(MAX_MINUTES * 60))
durationCap == Max(10, Floor(MAX_MINUTES * 60, 1))

\* parseInt(...) then the finite/positive test and the cap.  parseInt gives
\* an integer or NaN.
durationOf(parsed) ==
  LET d == IF parsed.t = "number" /\ parsed.n10 > 0
           THEN parsed.n10 \div 10 ELSE 90
  IN Min(d, durationCap)

\* [threw |-> TRUE] when one of the three conversions throws, which the
\* handler's outer catch answers.
ParseBody(body) ==
  LET t == ToString(OrElse(body.topic, Str(<<>>)))
      p == ToString(OrElse(body.preset, Str(CALM_LOOP)))
      d == parseInt(OrElse(body.duration_sec, Str(NINETY)))
  IN IF t.threw \/ p.threw \/ d.threw
     THEN [threw |-> TRUE, topic |-> <<>>, preset |-> CALM_LOOP,
           durationSec |-> 0]
     ELSE [threw |-> FALSE,
           topic |-> Slice(t.chars, 200),
           preset |-> presetOf(toUpperCase(p.chars)),
           durationSec |-> durationOf(d.value)]

(***************************************************************************)
(* The plan (server.js:121-191, 367-387)                                   *)
(***************************************************************************)
defaultTitle(topic) ==
  TITLE_PREFIX \o (IF Len(topic) > 0 THEN topic ELSE UNTITLED)

\* The plan built at server.js:124-137 and again at 373-386; only the note
\* differs.
fallbackPlan(topic, preset, note) ==
  [title |-> Str(defaultTitle(topic)),
   prompt |->
     [mood |-> Str(IF preset = UPBEAT_SHORTS THEN MOOD_UPBEAT ELSE MOOD_CALM),
      tempo_bpm |-> Num(IF preset = UPBEAT_SHORTS THEN 110 ELSE 80),
      instruments |-> Arr(IF preset = UPBEAT_SHORTS
                          THEN <<"soft pluck", "light percussion", "bass pad">>
                          ELSE <<"warm pad", "soft piano", "air texture">>),
      do_not |-> Arr(<<"no artist imitation", "no recognizable melodies",
                       "no lyrics", "no harsh distortion">>)],
   notes |-> Arr(<<note>>)]

noKeyPlan(topic, preset) == fallbackPlan(topic, preset, NOTE_NO_KEY)

\* `OpenAI failed -> fallback plan. (${String(e?.message || "").slice(0, 80)})`
failedNote(message) == NOTE_FAILED_PREFIX \o Slice(message, 80) \o <<")">>

\* Faulty variant: the failure is thrown on to the outer catch.
PlanAfterFailureRethrow(topic, preset, message) ==
  [threw |-> TRUE, plan |-> fallbackPlan(topic, preset, failedNote(message))]
\* The catch at server.js:371-387: the failure is swallowed and the fallback
\* plan is used.
PlanAfterFailure(topic, preset, message) ==
  [threw |-> FALSE, plan |-> fallbackPlan(topic, preset, failedNote(message))]

\* A reply's message content is a sequence of tokens: an opening brace, a
\* closing brace, other text, or the members of a well-formed JSON object.
LBrace == [k |-> "{"]
RBrace == [k |-> "}"]
Text == [k |-> "text"]
Members(plan) == [k |-> "members", plan |-> plan]

IndexOf(tokens, tok) ==
  IF \E i \in 1..Len(tokens) : tokens[i] = tok
  THEN CHOOSE i \in 1..Len(tokens) :
         tokens[i] = tok /\ \A j \in 1..(i - 1) : tokens[j] # tok
  ELSE -1
LastIndexOf(tokens, tok) ==
  IF \E i \in 1..Len(tokens) : tokens[i] = tok
  THEN CHOOSE i \in 1..Len(tokens) :
         tokens[i] = tok /\ \A j \in (i + 1)..Len(tokens) : tokens[j] # tok
  ELSE -1

\* JSON.parse of a slice that starts with "{" and ends with "}": it parses
\* iff what lies between is the members of one object (or nothing).
JsonParse(slice) ==
  IF Len(slice) = 3 /\ slice[2].k = "members"
  THEN [threw |-> FALSE, value |-> slice[2].plan]
  ELSE [threw |-> TRUE, value |-> <<>>]

\* extractJsonObject: <<>> for null, <<plan>> for a parsed object.
extractJsonObject(content) ==
  IF content.t # "text" THEN <<>>
  ELSE LET first == IndexOf(content.tokens, LBrace)
           lst == LastIndexOf(content.tokens, RBrace)
       IN IF first = -1 \/ lst = -1 \/ lst <= first THEN <<>>
          ELSE LET parsed == JsonParse(SubSeq(content.tokens, first, lst))
               IN IF parsed.threw THEN <<>> ELSE <<parsed.value>>

Content(tokens) == [t |-> "text", tokens |-> tokens]

(***************************************************************************)
(* The response data (server.js:397-414)                                   *)
(***************************************************************************)
\* Number(v) for the values a plan can hold.
ToNumber(v) ==
  CASE IsNumber(v) -> [threw |-> FALSE, value |-> v]
    [] v.t = "string" ->
         [threw |-> FALSE,
          value |-> IF Len(v.chars) = 0 THEN Num(0)
                    ELSE IF DigitPrefixLen(v.chars, 1) = Len(v.chars)
                         THEN Num(DigitsValue(v.chars, 1, Len(v.chars)))
                         ELSE NaN]
    [] v.t = "undefined" -> [threw |-> FALSE, value |-> NaN]
    [] OTHER -> [threw |-> TRUE, value |-> NaN]

ArrayOrEmpty(v, n) ==
  IF v.t = "array" THEN SubSeq(v.items, 1, Min(Len(v.items), n)) ELSE <<>>

fileNameOf(stamp, hex) ==
  FILE_PREFIX \o NatChars(stamp) \o <<"_">> \o hex \o FILE_SUFFIX

\* [threw |-> TRUE] when String() or Number() throws on a plan value.
buildData(plan, topic, preset, durationSec, fileName) ==
  LET title == ToString(OrElse(plan.title, Str(defaultTitle(topic))))
      mood == ToString(OrElse(plan.prompt.mood, Str(<<>>)))
      tempo == ToNumber(OrElse(plan.prompt.tempo_bpm,
                               Num(IF preset = UPBEAT_SHORTS THEN 110 ELSE 80)))
  IN IF title.threw \/ mood.threw \/ tempo.threw
     THEN [threw |-> TRUE, data |-> emptyData]
     ELSE [threw |-> FALSE,
           data |->
             [title |-> Slice(title.chars, 120),
              preset |-> preset,
              duration_sec |-> durationSec,
              loopable |-> preset # UPBEAT_SHORTS,
              prompt |->
                [topic |-> topic,
                 mood |-> Slice(mood.chars, 80),
                 tempo_bpm |-> OrElse(tempo.value, Num(80)),
                 instruments |-> ArrayOrEmpty(plan.prompt.instruments, 8),
                 do_not |-> ArrayOrEmpty(plan.prompt.do_not, 8)],
              audio |-> [format |-> "wav", sample_rate |-> 44100,
                         bitrate_kbps |-> 1411,
                         file_name |-> fileName,
                         download_url |-> DOWNLOAD_PREFIX \o fileName],
              notes |-> ArrayOrEmpty(plan.notes, 6)]]

(***************************************************************************)
(* xorshift32 on 32-bit words (server.js:247-254)                          *)
(***************************************************************************)
RECURSIVE Pow2(_)
Pow2(n) == IF n = 0 THEN 1 ELSE 2 * Pow2(n - 1)

\* a 32-bit word is <<hi, lo>>, its two 16-bit halves
Word(hi, lo) == <<hi, lo>>
ZeroWord == Word(0, 0)

\* a ^ b on four bits, bit by bit
RECURSIVE XorBits(_, _, _)
XorBits(a, b, n) ==
  IF n = 0 THEN 0
  ELSE 2 * XorBits(a \div 2, b \div 2, n - 1) + (((a % 2) + (b % 2)) % 2)
Xor4 == [a \in 0..15 |-> [b \in 0..15 |-> XorBits(a, b, 4)]]
Xor16(a, b) ==
  Xor4[a % 16][b % 16]
    + 16 * Xor4[(a \div 16) % 16][(b \div 16) % 16]
    + 256 * Xor4[(a \div 256) % 16][(b \div 256) % 16]
    + 4096 * Xor4[a \div 4096][b \div 4096]

Xor(a, b) == Word(Xor16(a[1], b[1]), Xor16(a[2], b[2]))
\* w << k for 0 < k < 16, the bits above 31 are dropped
Shl(w, k) == Word(((w[1] * Pow2(k)) % 65536) + (w[2] \div Pow2(16 - k)),
                  (w[2] * Pow2(k)) % 65536)
\* w >>> k for 16 <= k < 32
Shr(w, k) == Word(0, w[1] \div Pow2(k - 16))

\* rnd ^= rnd << 13; rnd ^= rnd >>> 17; rnd ^= rnd << 5
xorshift32(rnd) ==
  LET a == Xor(rnd, Shl(rnd, 13))
      b == Xor(a, Shr(a, 17))
  IN Xor(b, Shl(b, 5))

\* const seed = crypto.randomBytes(8).readUInt32LE(0); let rnd = seed
seedState(seed) == seed

\* (rnd >>> 0) / 4294967296, rounded down to a multiple of 1/256: the value
\* of the eight most significant bits.
randValue(rnd) == rnd[1] \div 256

(***************************************************************************)
(* synthAmbientWav (server.js:230-311)                                     *)
(***************************************************************************)
\* Faulty variant: one sample short.
synthTotalShort(durationSec) == Max(1, Floor(durationSec * sampleRate, 1) - 1)
\* server.js:232
synthTotal(durationSec) == Max(1, Floor(durationSec * sampleRate, 1))

tempoOf(preset) ==
  IF preset = UPBEAT_SHORTS THEN 110 ELSE IF preset = DOCUMENTARY THEN 90 ELSE 80
baseFreqOf(preset) ==
  IF preset = UPBEAT_SHORTS THEN 220 ELSE IF preset = DOCUMENTARY THEN 196 ELSE 174
\* Faulty variant: UPBEAT_SHORTS at amp 0.72.
ampLoud(preset) ==
  IF preset = UPBEAT_SHORTS THEN 36 ELSE IF preset = DOCUMENTARY THEN 9 ELSE 8
\* amp in fiftieths: 0.22, 0.18, 0.16
ampOf(preset) ==
  IF preset = UPBEAT_SHORTS THEN 11 ELSE IF preset = DOCUMENTARY THEN 9 ELSE 8

\* The generator's state after each of the next n calls of rand().
RECURSIVE Draws(_, _)
Draws(rnd, n) ==
  IF n = 0 THEN <<>>
  ELSE LET next == xorshift32(rnd) IN <<next>> \o Draws(next, n - 1)

\* phase = freqs.map(() => rand() * Math.PI * 2); lfoPhase; beatPhase; in
\* 1/256 turns
phasesOf(d) ==
  [phase |-> <<randValue(d[1]), randValue(d[2]), randValue(d[3]),
               randValue(d[4])>>,
   lfoPhase |-> randValue(d[5]),
   beatPhase |-> randValue(d[6]),
   rnd |-> d[6]]

\* The six draws of server.js:269-271: four oscillator phases, the LFO phase
\* and the beat phase.
setupPhases(rnd) == phasesOf(Draws(rnd, 6))

\* What determines the sample buffer of one call: its length, the preset's
\* shaping and the generator's draws.
synthAmbientWav(durationSec, preset, seed) ==
  LET setup == setupPhases(seedState(seed))
  IN [sampleRate |-> sampleRate,
      samples |-> [length |-> synthTotal(durationSec),
                   tempo |-> tempoOf(preset),
                   baseFreq |-> baseFreqOf(preset),
                   amp |-> ampOf(preset),
                   phase |-> setup.phase,
                   lfoPhase |-> setup.lfoPhase,
                   beatPhase |-> setup.beatPhase,
                   rnd |-> setup.rnd]]

\* floor(a * b / (c1 * c2)) for a, b >= 0 without leaving 32 bits.
MulDiv(a, b, c1, c2) == ((a \div c2) * b + ((a % c2) * b) \div c2) \div c1

\* Math.sin takes values in [-1, 1]; the loop body is evaluated for the
\* extreme values of each sine, where y, which is linear in each of them,
\* is largest and smallest.
SinValues == {-1, 1}
\* the four oscillators of the sine stack: all up, all down, mixed
StackCases == {<<1, 1, 1, 1>>, <<-1, -1, -1, -1>>, <<1, -1, 0, 0>>}

\* denominator of y without the envelope: 9600 * 50 * 5 * 4
YDen == 9600000
\* 1.2 seconds of samples: the fade length
FadeSamples == 52920

\* env = max(0, min(fadeIn, fadeOut)) in 1/52920
envOf(durationSec, i) ==
  LET fadeIn == Min(FadeSamples, i)
      fadeOut == Min(FadeSamples, durationSec * sampleRate - i)
  IN Max(0, Min(fadeIn, fadeOut))

\* y of server.js:305 in units of 1/YDen, for the sines s (stack), sl (LFO),
\* sb (beat), the click decision and the noise draw r (1/256).
sampleY(preset, durationSec, i, s, sl, sb, click, r) ==
  LET x120 == 120 * s[1] + 66 * s[2] + 33 * s[3] + 22 * s[4]
      noise == (r - 128) * 6
      clk == IF preset = UPBEAT_SHORTS /\ click THEN 3360 ELSE 0
      sum == x120 * 44 + noise + clk
      lfo == 3 + 2 * sl
      pulse == 3 + Max(0, sb)
      raw == sum * ampOf(preset) * lfo * pulse
      env == envOf(durationSec, i)
      mag == MulDiv(Abs(raw), env, 60, 882)
  IN IF raw < 0 THEN -mag ELSE mag

\* clamp16(y * 32767) for y in units of 1/YDen
clamp16(y) ==
  IF y > YDen THEN 32767
  ELSE IF -y > YDen + YDen \div 32767 THEN -32768
  ELSE LET mag == MulDiv(Abs(y), 32767, 9600, 1000)
       IN IF y < 0 THEN -mag ELSE mag

(***************************************************************************)
(* writeWavMono16 (server.js:194-222)                                      *)
(***************************************************************************)
BufferAlloc(n) == [i \in 1..n |-> 0]
\* buf.write...(value, offset): the bytes land at offset, the rest is kept
WriteAt(buf, offset, bytes) ==
  [i \in 1..Len(buf) |->
     IF i > offset /\ i <= offset + Len(bytes) THEN bytes[i - offset] ELSE buf[i]]

UInt32LE(v) == <<v % 256, (v \div 256) % 256, (v \div 65536) % 256,
                 (v \div 16777216) % 256>>
UInt16LE(v) == <<v % 256, (v \div 256) % 256>>
\* two's complement
Int16LE(v) == UInt16LE(IF v < 0 THEN v + 65536 ELSE v)

ReadUInt32LE(buf, offset) ==
  buf[offset + 1] + 256 * buf[offset + 2] + 65536 * buf[offset + 3]
    + 16777216 * buf[offset + 4]

\* character codes of "RIFF", "WAVE", "fmt " and "data"
RIFF == <<82, 73, 70, 70>>
WAVE == <<87, 65, 86, 69>>
FMT == <<102, 109, 116, 32>>
DATA == <<100, 97, 116, 97>>

\* Faulty variant: ChunkSize written without the 36 header bytes.
WavHeaderNoRiffSize(rate, length) ==
  LET dataSize == length * 2
      h1 == WriteAt(BufferAlloc(44), 0, RIFF)
      h2 == WriteAt(h1, 4, UInt32LE(dataSize))
      h3 == WriteAt(h2, 8, WAVE)
      h4 == WriteAt(h3, 12, FMT)
      h5 == WriteAt(h4, 16, UInt32LE(16))
      h6 == WriteAt(h5, 20, UInt16LE(1))
      h7 == WriteAt(h6, 22, UInt16LE(1))
      h8 == WriteAt(h7, 24, UInt32LE(rate))
      h9 == WriteAt(h8, 28, UInt32LE(rate * 2))
      h10 == WriteAt(h9, 32, UInt16LE(2))
      h11 == WriteAt(h10, 34, UInt16LE(16))
      h12 == WriteAt(h11, 36, DATA)
  IN WriteAt(h12, 40, UInt32LE(dataSize))

\* The 44-byte header for `length` samples.
WavHeader(rate, length) ==
  LET numChannels == 1
      bitsPerSample == 16
      byteRate == rate * numChannels * (bitsPerSample \div 8)
      blockAlign == numChannels * (bitsPerSample \div 8)
      dataSize == length * 2
      h1 == WriteAt(BufferAlloc(44), 0, RIFF)
      h2 == WriteAt(h1, 4, UInt32LE(36 + dataSize))
      h3 == WriteAt(h2, 8, WAVE)
      h4 == WriteAt(h3, 12, FMT)
      h5 == WriteAt(h4, 16, UInt32LE(16))
      h6 == WriteAt(h5, 20, UInt16LE(1))
      h7 == WriteAt(h6, 22, UInt16LE(numChannels))
      h8 == WriteAt(h7, 24, UInt32LE(rate))
      h9 == WriteAt(h8, 28, UInt32LE(byteRate))
      h10 == WriteAt(h9, 32, UInt16LE(blockAlign))
      h11 == WriteAt(h10, 34, UInt16LE(bitsPerSample))
      h12 == WriteAt(h11, 36, DATA)
  IN WriteAt(h12, 40, UInt32LE(dataSize))

RECURSIVE WavDataFrom(_, _, _)
WavDataFrom(data, samplesInt16, i) ==
  IF i > Len(samplesInt16) THEN data
  ELSE WavDataFrom(WriteAt(data, (i - 1) * 2, Int16LE(samplesInt16[i])),
                   samplesInt16, i + 1)

\* Buffer.alloc(dataSize) filled by the writeInt16LE loop
WavData(samplesInt16) ==
  WavDataFrom(BufferAlloc(Len(samplesInt16) * 2), samplesInt16, 1)

\* The bytes handed to fs.writeFileSync for an explicit sample sequence.
writeWavMono16(rate, samplesInt16) ==
  WavHeader(rate, Len(samplesInt16)) \o WavData(samplesInt16)

\* The same file for a buffer known by its length and its generating draws:
\* the rate and the data size its header states, and the samples.
wavFileOf(rate, samples) ==
  [sampleRate |-> rate, dataSize |-> samples.length * 2, samples |-> samples]

(***************************************************************************)
(* Bounds                                                                  *)
(***************************************************************************)
MaxLimit == 1         \* RATE_LIMIT_PER_MIN is drawn from 0..MaxLimit
MaxMinute == 1        \* the clock stops after this clock minute
MaxRateCalls == 3     \* requests in the rate limiter's specification
MaxCalls == 2         \* requests in the concurrent specification
MaxInflight == 2      \* handlers suspended at the same time
MaxBodyCalls == 1     \* requests in the request-body specification
MaxPlanCalls == 1     \* requests in the plan-provider specification
MaxIter == 2          \* loop iterations followed in one synthesis
MaxLen == 3           \* samples handed to writeWavMono16

(***************************************************************************)
(* Inputs                                                                  *)
(***************************************************************************)
ClientA == [xff |-> <<>>, remoteAddress |-> "10.0.0.1"]
ClientB == [xff |-> <<"203.0.113.7", "10.0.0.1">>, remoteAddress |-> "10.0.0.1"]
Clients == {ClientA, ClientB}
IPS == {getClientIp(c) : c \in Clients}

Body(topic, preset, duration_sec) ==
  [topic |-> topic, preset |-> preset, duration_sec |-> duration_sec]

Rain == Str(<<"r", "a", "i", "n">>)
Topics == {Undefined, Rain}
PresetInputs ==
  {Undefined,
   Str(<<"u", "p", "b", "e", "a", "t", "_", "s", "h", "o", "r", "t", "s">>),
   Str(<<"D", "o", "c", "u", "m", "e", "n", "t", "a", "r", "y">>),
   Str(<<"l", "o", "f", "i">>)}
DurationInputs ==
  {Undefined, Num(0), Num(-5), Infinity, Num10(5), Num10(25), Num(45),
   Num(100000), Str(<<"a", "b", "c">>), Str(<<"1", "2", "s">>),
   Str(<<"-", "3">>), OpaqueObject}

AllBodies ==
  {Body(t, p, d) : t \in Topics, p \in PresetInputs, d \in DurationInputs}
    \cup {Body(OpaqueObject, Undefined, Num(45)),
          Body(Rain, OpaqueObject, Num(45))}
DefaultBody == Body(Undefined, Undefined, Undefined)
ConcurrentBodies ==
  {DefaultBody,
   Body(Rain, Str(<<"u", "p", "b", "e", "a", "t", "_", "s", "h", "o", "r",
                    "t", "s">>), Num10(25)),
   Body(Undefined, Undefined, OpaqueObject)}

GoodPlan ==
  [title |-> Str(<<"R", "a", "i", "n", "y">>),
   prompt |-> [mood |-> Str(<<"c", "a", "l", "m">>), tempo_bpm |-> Num(72),
               instruments |-> Arr(<<"pad">>), do_not |-> Arr(<<"no lyrics">>)],
   notes |-> Arr(<<<<"o", "k">>>>)]
SparsePlan ==
  [title |-> Undefined,
   prompt |-> [mood |-> Undefined, tempo_bpm |-> Str(<<"f", "a", "s", "t">>),
               instruments |-> Undefined, do_not |-> Undefined],
   notes |-> Undefined]
HostilePlan == [GoodPlan EXCEPT !.title = OpaqueObject]

\* What the provider answers with a 2xx status: whether resp.json() parses,
\* and choices[0].message.content.
ReplyOf(bodyOk, content) == [bodyOk |-> bodyOk, content |-> content]
GoodReply == ReplyOf(TRUE, Content(<<LBrace, Members(GoodPlan), RBrace>>))
\* a body that is not JSON; no content; content without an object; braces in
\* the wrong order; braces around something that is not JSON
FailingReplies ==
  {ReplyOf(FALSE, Undefined),
   ReplyOf(TRUE, Undefined),
   ReplyOf(TRUE, Content(<<Text>>)),
   ReplyOf(TRUE, Content(<<RBrace, Text, LBrace>>)),
   ReplyOf(TRUE, Content(<<LBrace, Text, RBrace>>))}
SparseReply ==
  ReplyOf(TRUE, Content(<<Text, LBrace, Members(SparsePlan), RBrace, Text>>))
HostileReply == ReplyOf(TRUE, Content(<<LBrace, Members(HostilePlan), RBrace>>))
Replies == FailingReplies \cup {GoodReply, SparseReply, HostileReply}

Statuses == {200, 429, 503}

\* crypto.randomBytes(8).readUInt32LE(0)
\* 0; 2624, whose first two draws inside the loop are 255/256 and 0; and
\* 276166, whose first two draws inside the loop are 0 and 255/256
Seeds == {ZeroWord, Word(0, 2624), Word(4, 14022)}
RequestSeeds == {Word(0, 2624), Word(4, 14022)}
\* crypto.randomBytes(3).toString("hex")
HexA == <<"a", "1", "b", "2", "c", "3">>
HexB == <<"0", "0", "f", "f", "0", "0">>
HexIds == {HexA, HexB}

(***************************************************************************)
(* State                                                                   *)
(***************************************************************************)
NoHistory == [accepted |-> <<>>, lastRejected |-> -1, lastCounted |-> -1,
              lastCall |-> -1, call |-> <<>>]

IdleSyn ==
  [pc |-> "idle", durationSec |-> 0, preset |-> CALM_LOOP, total |-> 0,
   rnd |-> ZeroWord, phase |-> <<0, 0, 0, 0>>, lfoPhase |-> 0, beatPhase |-> 0,
   i |-> -1, y |-> 0, sample |-> 0, iters |-> 0]
IdleWav == [pc |-> "idle", samplesInt16 |-> <<>>, bytes |-> <<>>]

InitServer(limits, cooldowns, keys) ==
  /\ RATE_LIMIT_PER_MIN \in limits
  /\ COOLDOWN_MS \in cooldowns
  /\ OPENAI_API_KEY \in keys
  /\ now = 5000
  /\ ipBuckets = <<>>
  /\ inflight = <<>>
  /\ files = <<>>
  /\ last = <<>>
  /\ ncalls = 0
  /\ hist = [ip \in IPS |-> NoHistory]

configVars == <<RATE_LIMIT_PER_MIN, COOLDOWN_MS, OPENAI_API_KEY>>
serverVars == <<now, ipBuckets, inflight, files, last, ncalls, hist>>

(***************************************************************************)
(* The clock                                                               *)
(***************************************************************************)
Tick(steps, maxMinute) ==
  \E dt \in steps :
    /\ Floor(now + dt, MinuteMs) <= maxMinute
    /\ now' = now + dt
    /\ UNCHANGED <<configVars, ipBuckets, inflight, files, last, ncalls, hist,
                   syn, wav>>

(***************************************************************************)
(* POST /make (server.js:348-421)                                          *)
(***************************************************************************)
\* History of the limiter's verdicts for one ip, kept beside the Map: the
\* accepted requests per clock minute, the time of the latest rejection, of
\* the latest counted request (one that did not arrive within COOLDOWN_MS of
\* the counted request before it) and of the latest request, and the latest
\* call with what the history was before it.
Recorded(h, t, ok) ==
  LET minute == Floor(t, MinuteMs)
      cooled == COOLDOWN_MS > 0 /\ h.lastCounted # -1
                /\ t - h.lastCounted < COOLDOWN_MS
      before == IF minute \in DOMAIN h.accepted THEN h.accepted[minute] ELSE 0
  IN [accepted |-> IF ok THEN MapSet(h.accepted, minute, before + 1)
                   ELSE h.accepted,
      lastRejected |-> IF ok THEN h.lastRejected ELSE t,
      lastCounted |-> IF cooled THEN h.lastCounted ELSE t,
      lastCall |-> t,
      call |-> <<[at |-> t, ok |-> ok, rejectedBefore |-> h.lastRejected,
                  countedBefore |-> h.lastCounted,
                  calledBefore |-> h.lastCall]>>]

\* Faulty variant: topic, preset and durationSec are module-level variables,
\* which every suspended handler sees overwritten.
StoreLocalsShared(frames, id, frame) ==
  [k \in DOMAIN frames \cup {id} |->
     IF k = id THEN frame
     ELSE [frames[k] EXCEPT !.topic = frame.topic, !.preset = frame.preset,
                            !.durationSec = frame.durationSec]]
\* The handler's locals live in its own frame.
StoreLocals(frames, id, frame) == MapSet(frames, id, frame)

Without(frames, id) == [k \in DOMAIN frames \ {id} |-> frames[k]]

Exchange(id, req, ip, stage, locals, fetched, failure, seed, samples, fileName, reply) ==
  [id |-> id, req |-> req, ip |-> ip, stage |-> stage,
   topic |-> locals.topic, preset |-> locals.preset,
   durationSec |-> locals.durationSec,
   fetched |-> fetched, failure |-> failure, seed |-> seed,
   samples |-> samples, fileName |-> fileName, reply |-> reply]

NoLocals == [topic |-> <<>>, preset |-> CALM_LOOP, durationSec |-> 0]

\* server.js:349-370: the limiter, the locals, and the call of makeMusicPlan
\* up to its first await.
Make(bodies, clients, maxCalls, maxInflight) ==
  /\ ncalls < maxCalls
  /\ Cardinality(DOMAIN inflight) < maxInflight
  /\ \E c \in clients, b \in bodies :
    LET req == [xff |-> c.xff, remoteAddress |-> c.remoteAddress, body |-> b]
        ip == getClientIp(req)
        rl == rateLimitCheck(ipBuckets, ip, now)
        parsed == ParseBody(req.body)
        id == ncalls + 1
    IN /\ ncalls' = id
       /\ ipBuckets' = rl.buckets
       /\ hist' = [hist EXCEPT ![ip] = Recorded(hist[ip], now, rl.ok)]
       /\ IF ~rl.ok
          THEN /\ last' = <<Exchange(id, req, ip, "limited", NoLocals, FALSE,
                                     "", <<>>, <<>>, <<>>,
                                     Reply(429, errResponse(rl.code)))>>
               /\ UNCHANGED <<inflight, files>>
          ELSE IF parsed.threw
          THEN /\ last' = <<Exchange(id, req, ip, "parse", NoLocals, FALSE,
                                     "", <<>>, <<>>, <<>>,
                                     Reply(500, errResponse("E-SERVER-001")))>>
               /\ UNCHANGED <<inflight, files>>
          ELSE /\ inflight' =
                    StoreLocals(inflight, id,
                      [req |-> req, ip |-> ip, topic |-> parsed.topic,
                       preset |-> parsed.preset,
                       durationSec |-> parsed.durationSec,
                       pc |-> IF OPENAI_API_KEY THEN "fetch" ELSE "plan",
                       status |-> 0])
               /\ UNCHANGED <<files, last>>
       /\ UNCHANGED <<configVars, now, syn, wav>>

\* server.js:389-416: synthesis, the file, the response.
Finish(id, f, plan, fetched, failure, seeds, hexIds) ==
  \E seed \in seeds, hex \in hexIds :
    \E out \in {synthAmbientWav(f.durationSec, f.preset, seed)} :
      LET fileName == fileNameOf(now \div 1000, hex)
          built == buildData(plan, f.topic, f.preset, f.durationSec, fileName)
          reply == IF built.threw THEN Reply(500, errResponse("E-SERVER-001"))
                   ELSE Reply(200, okResponse(built.data))
      IN /\ files' = MapSet(files, fileName,
                            wavFileOf(out.sampleRate, out.samples))
         /\ inflight' = Without(inflight, id)
         /\ last' = <<Exchange(id, f.req, f.ip, "complete", f, fetched, failure,
                               <<seed>>, <<out.samples>>, fileName, reply)>>
         /\ UNCHANGED <<configVars, now, ipBuckets, ncalls, hist, syn, wav>>

\* A failure of makeMusicPlan reaches the catch at server.js:371.
Failed(id, f, message, failure, seeds, hexIds) ==
  LET r == PlanAfterFailure(f.topic, f.preset, message)
  IN IF r.threw
     THEN /\ last' = <<Exchange(id, f.req, f.ip, "plan", f, TRUE, failure,
                                <<>>, <<>>, <<>>,
                                Reply(500, errResponse("E-SERVER-001")))>>
          /\ inflight' = Without(inflight, id)
          /\ UNCHANGED <<configVars, now, ipBuckets, files, ncalls, hist, syn,
                         wav>>
     ELSE Finish(id, f, r.plan, TRUE, failure, seeds, hexIds)

\* No key: makeMusicPlan resolves with its own fallback plan (server.js:123).
PlanResolve(seeds, hexIds) ==
  \E id \in DOMAIN inflight :
    /\ inflight[id].pc = "plan"
    /\ Finish(id, inflight[id],
              noKeyPlan(inflight[id].topic, inflight[id].preset), FALSE, "nokey",
              seeds, hexIds)

\* fetch rejects: a network error.
FetchReject(seeds, hexIds) ==
  \E id \in DOMAIN inflight :
    /\ inflight[id].pc = "fetch"
    /\ Failed(id, inflight[id], MSG_FETCH_FAILED, "network", seeds, hexIds)

\* fetch resolves with a status; the body is awaited next.
FetchRespond(statuses) ==
  \E id \in DOMAIN inflight, status \in statuses :
    /\ inflight[id].pc = "fetch"
    /\ inflight' = [inflight EXCEPT ![id].status = status,
                                    ![id].pc = IF status >= 200 /\ status <= 299
                                               THEN "json" ELSE "text"]
    /\ UNCHANGED <<configVars, now, ipBuckets, files, last, ncalls, hist, syn,
                   wav>>

\* server.js:181-184: a non-2xx status throws openai_http_<status>.
TextDone(seeds, hexIds) ==
  \E id \in DOMAIN inflight :
    /\ inflight[id].pc = "text"
    /\ Failed(id, inflight[id],
              MSG_HTTP_PREFIX \o NatChars(inflight[id].status) \o <<":", " ">>,
              "http", seeds, hexIds)

\* server.js:186-190: the reply's JSON, its content, the extracted plan.
JsonDone(replies, seeds, hexIds) ==
  \E id \in DOMAIN inflight, reply \in replies :
    /\ inflight[id].pc = "json"
    /\ IF ~reply.bodyOk
       THEN Failed(id, inflight[id], MSG_JSON_SYNTAX, "json", seeds, hexIds)
       ELSE LET plan == extractJsonObject(OrElse(reply.content, Content(<<>>)))
            IN IF plan = <<>>
               THEN Failed(id, inflight[id], MSG_PARSE_FAIL, "parse", seeds,
                           hexIds)
               ELSE Finish(id, inflight[id], plan[1], TRUE, "", seeds, hexIds)

(***************************************************************************)
(* One synthAmbientWav invocation, step by step                            *)
(***************************************************************************)
Presets == {CALM_LOOP, UPBEAT_SHORTS, DOCUMENTARY}
\* durations POST /make hands over: integers from 1 to the cap
SynthDurations == {1, 3, durationCap}

\* sample indices at which the loop body is followed: the first ones, the
\* end of the fade-in, the middle, the start of the fade-out, the last one
IndexSet(total) ==
  {i \in {0, 1, FadeSamples, total \div 2, total - FadeSamples, total - 1} :
     i >= 0 /\ i < total}

\* server.js:231-249
SynthSeed ==
  /\ syn.pc = "idle"
  /\ \E d \in SynthDurations, p \in Presets, seed \in Seeds :
    /\ syn' = [IdleSyn EXCEPT !.pc = "seeded", !.durationSec = d, !.preset = p,
                              !.total = synthTotal(d), !.rnd = seedState(seed)]
    /\ UNCHANGED <<configVars, serverVars, wav>>

\* server.js:269-271
SynthSetup ==
  /\ syn.pc = "seeded"
  /\ LET setup == setupPhases(syn.rnd)
     IN syn' = [syn EXCEPT !.pc = "loop", !.phase = setup.phase,
                           !.lfoPhase = setup.lfoPhase,
                           !.beatPhase = setup.beatPhase, !.rnd = setup.rnd]
  /\ UNCHANGED <<configVars, serverVars, wav>>

\* server.js:273-308, one iteration at a later index
LoopIter ==
  /\ syn.pc = "loop"
  /\ syn.iters < MaxIter
  /\ \E i \in {k \in IndexSet(syn.total) : k > syn.i}, s \in StackCases,
        sl \in SinValues, sb \in SinValues, click \in BOOLEAN :
    /\ LET rnd == xorshift32(syn.rnd)
           y == sampleY(syn.preset, syn.durationSec, i, s, sl, sb, click,
                        randValue(rnd))
       IN syn' = [syn EXCEPT !.rnd = rnd, !.i = i, !.y = y,
                             !.sample = clamp16(y), !.iters = @ + 1]
    /\ UNCHANGED <<configVars, serverVars, wav>>

\* server.js:310
SynthReturn ==
  /\ syn.pc = "loop"
  /\ syn' = [syn EXCEPT !.pc = "done"]
  /\ UNCHANGED <<configVars, serverVars, wav>>

(***************************************************************************)
(* One writeWavMono16 invocation                                           *)
(***************************************************************************)
SampleValues == {-32768, -1, 0, 1, 32767}
SampleSeqs == UNION {[1..n -> SampleValues] : n \in 0..MaxLen}

WriteWav ==
  /\ wav.pc = "ready"
  /\ wav' = [wav EXCEPT !.pc = "written",
                        !.bytes = writeWavMono16(sampleRate, wav.samplesInt16)]
  /\ UNCHANGED <<configVars, serverVars, syn>>

(***************************************************************************)
(* Specifications                                                          *)
(***************************************************************************)
\* Concurrent requests with a provider that answers, fails or is not
\* configured.
Init ==
  /\ InitServer({1}, {0}, BOOLEAN)
  /\ syn = IdleSyn
  /\ wav = IdleWav
Next ==
  \/ Make(ConcurrentBodies, Clients, MaxCalls, MaxInflight)
  \/ PlanResolve(RequestSeeds, HexIds)
  \/ FetchReject(RequestSeeds, HexIds)
  \/ FetchRespond({200, 503})
  \/ TextDone(RequestSeeds, HexIds)
  \/ JsonDone({ReplyOf(FALSE, Undefined), GoodReply, HostileReply},
              RequestSeeds, HexIds)
Spec == Init /\ [][Next]_vars

\* One request at a time and everything the provider can answer.
InitPlan ==
  /\ InitServer({1}, {0}, BOOLEAN)
  /\ syn = IdleSyn
  /\ wav = IdleWav
NextPlan ==
  \/ Make(ConcurrentBodies, Clients, MaxPlanCalls, 1)
  \/ PlanResolve(RequestSeeds, HexIds)
  \/ FetchReject(RequestSeeds, HexIds)
  \/ FetchRespond(Statuses)
  \/ TextDone(RequestSeeds, HexIds)
  \/ JsonDone(Replies, RequestSeeds, HexIds)
SpecPlan == InitPlan /\ [][NextPlan]_vars

\* One request at a time, every request body; no key, so each parsed
\* request completes with the fallback plan.
InitBodies ==
  /\ InitServer({1}, {0}, {FALSE})
  /\ syn = IdleSyn
  /\ wav = IdleWav
NextBodies ==
  \/ Make(AllBodies, {ClientA}, MaxBodyCalls, 1)
  \/ PlanResolve(RequestSeeds, {HexA})
SpecBodies == InitBodies /\ [][NextBodies]_vars

\* The rate limiter under a moving clock; no key.
InitRate ==
  /\ InitServer(0..MaxLimit, {0, 40000}, {FALSE})
  /\ syn = IdleSyn
  /\ wav = IdleWav
NextRate ==
  \/ Tick({30000}, MaxMinute)
  \/ Make({DefaultBody}, Clients, MaxRateCalls, 1)
  \/ PlanResolve({Word(0, 2624)}, {HexA})
SpecRate == InitRate /\ [][NextRate]_vars

\* The synthesis alone.
InitSynth ==
  /\ InitServer({1}, {0}, {FALSE})
  /\ syn = IdleSyn
  /\ wav = IdleWav
NextSynth == SynthSeed \/ SynthSetup \/ LoopIter \/ SynthReturn
SpecSynth == InitSynth /\ [][NextSynth]_vars

\* The WAV writer alone.
InitWav ==
  /\ InitServer({1}, {0}, {FALSE})
  /\ syn = IdleSyn
  /\ wav \in {[pc |-> "ready", samplesInt16 |-> q, bytes |-> <<>>] :
                q \in SampleSeqs}
NextWav == WriteWav
SpecWav == InitWav /\ [][NextWav]_vars

(***************************************************************************)
(* Properties                                                              *)
(***************************************************************************)
\* the rational num/den, den > 0, rounded to the nearest integer
Round(num, den) == (2 * num + den) \div (2 * den)
\* the exchanges completed by the latest step
Completed == {last[k] : k \in 1..Len(last)}
\* the exchanges that got as far as the synthesis
Synthesized == {x \in Completed : x.stage = "complete"}

\* C1: every duration d > 0 that POST /make hands to synthAmbientWav yields
\* exactly round(d * 44100) samples, whatever the preset.
C1_SampleCount ==
  \A x \in Synthesized :
    /\ x.durationSec > 0
    /\ x.samples[1].length = Round(x.durationSec * sampleRate, 1)
C1_Witness ==
  \E x \in Synthesized :
    /\ x.req.body.duration_sec = Num10(25)
    /\ x.preset = DOCUMENTARY
    /\ x.samples[1].length = 88200

\* duration_sec values that are missing, zero, negative, non-finite or not
\* numeric
InvalidDurations ==
  {Undefined, Num(0), Num(-5), Infinity, Str(<<"a", "b", "c">>),
   Str(<<"-", "3">>), OpaqueObject}
\* topic and preset are absent or strings
PlainBody(body) ==
  /\ body.topic.t \in {"undefined", "string"}
  /\ body.preset.t \in {"undefined", "string"}

\* C2: a request whose duration_sec is missing, zero, negative, non-finite or
\* not numeric is never answered with an error: a positive duration is
\* substituted, at least one sample is synthesized and the WAV written has a
\* non-empty data section.
C2_InvalidDurationSubstituted ==
  \A x \in Completed :
    (/\ x.stage # "limited"
     /\ x.req.body.duration_sec \in InvalidDurations
     /\ PlainBody(x.req.body))
    => /\ x.reply.body.ok
       /\ x.durationSec > 0
       /\ x.samples # <<>>
       /\ x.samples[1].length >= 1
       /\ x.fileName \in DOMAIN files
       /\ files[x.fileName].dataSize > 0

\* C3: the xorshift32 state is never 0, neither after seeding nor after any
\* call of rand().
C3_StateNeverZero == syn.pc # "idle" => syn.rnd # ZeroWord

\* C4: for N samples writeWavMono16 writes exactly 44 + 2*N bytes, with
\* ChunkSize (bytes 4-7) = 36 + 2*N and dataSize (bytes 40-43) = 2*N.
C4_WavLength ==
  wav.pc = "written" =>
    /\ Len(wav.bytes) = 44 + 2 * Len(wav.samplesInt16)
    /\ ReadUInt32LE(wav.bytes, 4) = 36 + 2 * Len(wav.samplesInt16)
    /\ ReadUInt32LE(wav.bytes, 40) = 2 * Len(wav.samplesInt16)
C4_Witness ==
  /\ wav.pc = "written"
  /\ wav.samplesInt16 = <<-32768, 32767, -1>>
  /\ Len(wav.bytes) = 50
  /\ ReadUInt32LE(wav.bytes, 4) = 42

\* C5: every y the loop computes lies in [-1, 1], so that clamp16 does not
\* saturate: the stored sample is y * 32767 cut to an integer, within
\* [-32768, 32767].
C5_SampleRange ==
  syn.iters > 0 =>
    /\ Abs(syn.y) <= YDen
    /\ syn.sample = (IF syn.y < 0 THEN -1 ELSE 1)
                      * MulDiv(Abs(syn.y), 32767, 9600, 1000)
    /\ syn.sample >= -32768
    /\ syn.sample <= 32767
\* the loudest sample: UPBEAT_SHORTS at full envelope with every sine, the
\* click and the noise at their top
C5_Witness ==
  /\ syn.iters > 0
  /\ syn.preset = UPBEAT_SHORTS
  /\ syn.y = 3239720
  /\ syn.sample = 11057

\* C6: whatever the interleaving of concurrent requests, the locals of every
\* suspended handler are those of its own request, and the samples written
\* for a request are those its own seed, duration and preset produce when it
\* runs alone.
C6_OwnState ==
  /\ \A id \in DOMAIN inflight :
       LET own == ParseBody(inflight[id].req.body)
       IN /\ inflight[id].topic = own.topic
          /\ inflight[id].preset = own.preset
          /\ inflight[id].durationSec = own.durationSec
  /\ \A x \in Synthesized :
       LET own == ParseBody(x.req.body)
           alone == synthAmbientWav(own.durationSec, own.preset, x.seed[1])
       IN /\ x.samples[1] = alone.samples
          /\ files[x.fileName] = wavFileOf(alone.sampleRate, alone.samples)
\* a request completes while another one, with another preset, duration and
\* caller, is suspended
C6_Witness ==
  \E x \in Synthesized : \E id \in DOMAIN inflight :
    /\ inflight[id].preset # x.preset
    /\ inflight[id].durationSec # x.durationSec
    /\ inflight[id].ip # x.ip
    /\ id < x.id

ProviderFailures == {"nokey", "network", "http", "json", "parse"}

\* C7: when the plan provider fails (no key, a network error, a non-2xx
\* status, an unparsable reply), POST /make substitutes the fallback plan,
\* synthesizes and writes the WAV and answers 200 with ok = true and code OK.
C7_ProviderFailureFallsBack ==
  \A x \in Completed :
    x.failure \in ProviderFailures =>
      /\ x.stage = "complete"
      /\ x.reply.status = 200
      /\ x.reply.body.ok
      /\ x.reply.body.code = "OK"
      /\ x.reply.body.data.title = Slice(defaultTitle(x.topic), 120)
      /\ Len(x.reply.body.data.notes) = 1
      /\ x.samples # <<>>
      /\ x.fileName \in DOMAIN files
      /\ files[x.fileName].samples = x.samples[1]
C7_Witness ==
  \E x \in Completed :
    /\ x.failure = "http"
    /\ x.reply.body.ok
    /\ x.reply.body.data.notes =
         <<NOTE_FAILED_PREFIX \o MSG_HTTP_PREFIX \o <<"5", "0", "3", ":", " ">>
             \o <<")">>>>

\* the ip of request id: the request is suspended or has just been answered
CallerOf(id, frames, answered) ==
  IF id \in DOMAIN frames THEN frames[id].ip ELSE answered[1].ip
\* the bucket the Map holds for an ip
BucketOf(buckets, ip) == IF ip \in DOMAIN buckets THEN <<buckets[ip]>> ELSE <<>>

\* C8: in every clock minute at most RATE_LIMIT_PER_MIN requests of one ip
\* are accepted, and a request changes neither the bucket nor the verdict of
\* another ip.
C8_PerMinuteLimit ==
  /\ [](\A ip \in IPS : \A minute \in DOMAIN hist[ip].accepted :
          hist[ip].accepted[minute] <= RATE_LIMIT_PER_MIN)
  /\ [][ncalls' # ncalls =>
          \A ip \in IPS \ {CallerOf(ncalls', inflight', last')} :
            /\ BucketOf(ipBuckets', ip) = BucketOf(ipBuckets, ip)
            /\ rateLimitCheck(ipBuckets', ip, now).ok
                 = rateLimitCheck(ipBuckets, ip, now).ok
            /\ hist'[ip] = hist[ip]]_vars
\* an ip is rejected in a minute in which it has used up its limit, while
\* the other ip has been accepted in the same minute
C8_Witness ==
  \E ip \in IPS, other \in IPS :
    /\ ip # other
    /\ RATE_LIMIT_PER_MIN >= 1
    /\ hist[ip].call # <<>>
    /\ ~hist[ip].call[1].ok
    /\ LET minute == Floor(hist[ip].call[1].at, MinuteMs)
       IN /\ minute \in DOMAIN hist[ip].accepted
          /\ hist[ip].accepted[minute] = RATE_LIMIT_PER_MIN
          /\ minute \in DOMAIN hist[other].accepted

\* the latest call of ip is its first in its clock minute, it comes after a
\* rejection and at least COOLDOWN_MS after the last counted request
FirstAfterRejection(c) ==
  /\ c.rejectedBefore # -1
  /\ Floor(c.calledBefore, MinuteMs) < Floor(c.at, MinuteMs)
  /\ c.at - c.countedBefore >= COOLDOWN_MS

\* C9: with RATE_LIMIT_PER_MIN >= 1, the first request an ip sends in a later
\* clock minute after a rejection, at least COOLDOWN_MS after its last counted
\* request, is accepted; a request rejected by the cooldown leaves lastTs at
\* the time of the last counted request.
C9_NotPermanent ==
  \A ip \in IPS :
    /\ (RATE_LIMIT_PER_MIN >= 1 /\ hist[ip].call # <<>>
        /\ FirstAfterRejection(hist[ip].call[1]))
       => hist[ip].call[1].ok
    /\ ip \in DOMAIN ipBuckets => ipBuckets[ip].lastTs = hist[ip].lastCounted
\* accepted in a later minute although the request before it was rejected by
\* the cooldown, less than COOLDOWN_MS ago
C9_Witness ==
  \E ip \in IPS :
    /\ RATE_LIMIT_PER_MIN >= 1
    /\ hist[ip].call # <<>>
    /\ FirstAfterRejection(hist[ip].call[1])
    /\ hist[ip].call[1].ok
    /\ hist[ip].call[1].rejectedBefore = hist[ip].call[1].calledBefore
    /\ hist[ip].call[1].rejectedBefore > hist[ip].call[1].countedBefore
    /\ hist[ip].call[1].at - hist[ip].call[1].rejectedBefore < COOLDOWN_MS

OkShape(x) ==
  /\ x.reply.status = 200
  /\ x.reply.body.ok
  /\ x.reply.body.code = "OK"
  /\ x.stage = "complete"
  /\ Len(x.fileName) > 0
  /\ x.reply.body.data.audio.file_name = x.fileName
  /\ x.reply.body.data.audio.download_url = DOWNLOAD_PREFIX \o x.fileName
  /\ x.fileName \in DOMAIN files
  /\ files[x.fileName] = wavFileOf(sampleRate, x.samples[1])
ErrShape(x) ==
  /\ ~x.reply.body.ok
  /\ \/ x.reply.body.code = "E-RATE-001" /\ x.reply.status = 429
     \/ x.reply.body.code = "E-SERVER-001" /\ x.reply.status = 500
  /\ x.reply.body.data = emptyData

====
